---- MODULE Spec2Model ----
(***************************************************************************)
(* A model of the gloss-translation repository:                            *)
(*   - the REST client modules Auth and Languages                          *)
(*     (packages/api-client/src/auth.ts),                                  *)
(*   - the login form view LoginView                                       *)
(*     (packages/web/src/features/users/LoginView.tsx),                    *)
(*   - the relational schema (the Prisma schema, src/unnamed/part_000).    *)
(*                                                                         *)
(* Four specifications share the variables:                                *)
(*   Spec       the Auth client and LoginView submissions,                 *)
(*   SpecLang   the Languages client,                                      *)
(*   SpecDb     the tables of users, languages, roles and import jobs,     *)
(*   SpecWords  the tables of words and their per-language content.        *)
(* A fifth, SpecHistory, is the gloss history written as a log.            *)
(***************************************************************************)
EXTENDS Integers, Sequences, FiniteSets, Bags, TLC

VARIABLES
  calls,        \* invocations of client methods, in invocation order
  requests,     \* HTTP requests put on the wire, in the order they were sent
  submissions,  \* LoginView form submissions (runs of onSubmit)
  ui,           \* the effects onSubmit had: refreshAuth, navigate, flash.error
  db,           \* the database: table name -> bag of rows
  lastOp        \* the last database statement and its outcome

clientVars == <<calls, requests, submissions, ui>>
dbVars == <<db, lastOp>>
vars == <<calls, requests, submissions, ui, db, lastOp>>

(***************************************************************************)
(* Bounds of the model.                                                    *)
(***************************************************************************)
MaxCalls == 2
MaxSubmits == 2
MaxLangCalls == 2
MaxRows == 4

(***************************************************************************)
(* Inputs.                                                                 *)
(***************************************************************************)
Emails == {"a@x.org", "b@x.org"}
Passwords == {"pw"}
Tokens == {"t1", "t2"}
Names == {"Ann"}
Codes == {"en", "es"}
UserIds == {"u1", "u2"}
ExtraField == "remember"

\* A caller's argument object: its typed fields, and possibly one more field
\* (TypeScript's structural typing lets a wider object through).
Widen(obj) == [f \in DOMAIN obj \cup {ExtraField} |->
                 IF f = ExtraField THEN "yes" ELSE obj[f]]
WithExtra(objs) == objs \cup {Widen(o) : o \in objs}

LoginArgs == WithExtra({[email |-> e, password |-> p] : e \in Emails, p \in Passwords})
InviteArgs == WithExtra({[token |-> "t1", name |-> n, password |-> p] :
                           n \in Names, p \in Passwords})
FormValues == Emails \cup {""}

(***************************************************************************)
(* JavaScript values.                                                      *)
(***************************************************************************)
NoFields == [f \in {} |-> ""]
Undefined == [undefined |-> TRUE]
NoError == [name |-> "", status |-> 0, message |-> ""]

\* Destructuring { a, b } and rebuilding the literal { a, b }.
Pick(obj, fields) == [f \in fields |-> obj[f]]

(***************************************************************************)
(* ApiClient (./client): the transport under Auth and Languages.           *)
(***************************************************************************)
JsonTexts == {"{}", "{\"user\":\"u1\"}"}

ParseJson(text) == IF text = "{}" THEN NoFields ELSE [user |-> "u1"]

StatusText(status) ==
  CASE status = 401 -> "Unauthorized"
    [] status = 500 -> "Internal Server Error"
    [] OTHER -> "OK"

IsOk(status) == status >= 200 /\ status < 300

ApiClientError(status) ==
  [name |-> "ApiClientError", status |-> status, message |-> StatusText(status)]

\* What fetch rejects with when no response arrives.
NetworkError == [name |-> "TypeError", status |-> 0, message |-> "Failed to fetch"]

\* One client.get/post/patch/delete call: the one HTTP request it describes.
ClientCall(verb, req) ==
  [verb |-> verb,
   path |-> req.path,
   hasQuery |-> "query" \in DOMAIN req,
   query |-> IF "query" \in DOMAIN req THEN req.query ELSE NoFields,
   hasBody |-> "body" \in DOMAIN req,
   body |-> IF "body" \in DOMAIN req THEN req.body ELSE NoFields]

get(req) == ClientCall("GET", req)
post(req) == ClientCall("POST", req)
patch(req) == ClientCall("PATCH", req)
delete(req) == ClientCall("DELETE", req)

\* A method of the client modules: the client calls it makes, and whether it
\* returns the client's promise ("body") or awaits it and returns nothing.
Returning(clientCalls) == [clientCalls |-> clientCalls, returns |-> "body"]
Awaiting(clientCalls) == [clientCalls |-> clientCalls, returns |-> "void"]

(***************************************************************************)
(* class Auth                                                              *)
(***************************************************************************)
\* A session() that answers from an earlier response instead of asking again.
sessionCached ==
  IF \E i \in 1..Len(calls) : calls[i].method = "session" /\ calls[i].state = "resolved"
    THEN Returning(<<>>)
    ELSE Returning(<<get([path |-> "/api/auth/session"])>>)

session == Returning(<<get([path |-> "/api/auth/session"])>>)

loginWholeObject(arg) ==
  Returning(<<post([path |-> "/api/auth/login", body |-> arg])>>)

login(arg) ==
  Returning(<<post([path |-> "/api/auth/login",
                    body |-> Pick(arg, {"email", "password"})])>>)

logout == Returning(<<post([path |-> "/api/auth/logout"])>>)

getInvite(token) ==
  Returning(<<get([path |-> "/api/auth/invite", query |-> [token |-> token]])>>)

acceptInvite(arg) ==
  Returning(<<post([path |-> "/api/auth/invite",
                    body |-> Pick(arg, {"token", "name", "password"})])>>)

(***************************************************************************)
(* Invoking a method and settling its promise.                             *)
(***************************************************************************)
\* The HTTP requests a method invocation puts on the wire: the transport
\* sends one request per client call.
Wire(callId, m) ==
  [i \in 1..Len(m.clientCalls) |->
     [call |-> callId, req |-> m.clientCalls[i],
      state |-> "sent", status |-> 0, text |-> ""]]

Invoke(method, args, m, sub) ==
  /\ calls' = Append(calls, [method |-> method, args |-> args, returns |-> m.returns,
                             sub |-> sub, state |-> "pending",
                             value |-> Undefined, error |-> NoError])
  /\ requests' = requests \o Wire(Len(calls) + 1, m)

\* The promise of a call whose request got a response.
Settled(c, status, text) ==
  IF IsOk(status)
    THEN [c EXCEPT !.state = "resolved",
                   !.value = IF c.returns = "body" THEN ParseJson(text) ELSE Undefined]
    ELSE [c EXCEPT !.state = "rejected", !.error = ApiClientError(status)]

Failed(c) == [c EXCEPT !.state = "rejected", !.error = NetworkError]

(***************************************************************************)
(* LoginView                                                               *)
(***************************************************************************)
\* useTranslation's t: the localized message of a key.
t(key) == "[" \o key \o "]"

\* `${error}`: Error.prototype.toString.
ErrorString(error) == error.name \o ": " \o error.message

Effect(sub, effect, arg) == [sub |-> sub, effect |-> effect, arg |-> arg]

\* An onSubmit that takes every ApiClientError for bad credentials.
onSubmitAnyStatus(sub, c) ==
  IF c.state = "resolved"
    THEN <<Effect(sub, "refreshAuth", ""), Effect(sub, "navigate", "/")>>
    ELSE IF c.error.name = "ApiClientError"
      THEN <<Effect(sub, "flash.error", t("users:errors.invalid_auth"))>>
      ELSE <<Effect(sub, "flash.error", ErrorString(c.error))>>

\* An onSubmit whose refreshAuth and navigate follow the try/catch.
onSubmitAfterTry(sub, c) ==
  (IF c.state = "resolved"
     THEN <<>>
     ELSE IF c.error.name = "ApiClientError" /\ c.error.status = 401
       THEN <<Effect(sub, "flash.error", t("users:errors.invalid_auth"))>>
       ELSE <<Effect(sub, "flash.error", ErrorString(c.error))>>)
  \o <<Effect(sub, "refreshAuth", ""), Effect(sub, "navigate", "/")>>

\* An onSubmit that drops the outcome of all but the latest submission.
onSubmitLatestOnly(sub, c) ==
  IF sub # Len(submissions)
    THEN <<>>
    ELSE IF c.state = "resolved"
      THEN <<Effect(sub, "refreshAuth", ""), Effect(sub, "navigate", "/")>>
      ELSE IF c.error.name = "ApiClientError" /\ c.error.status = 401
        THEN <<Effect(sub, "flash.error", t("users:errors.invalid_auth"))>>
        ELSE <<Effect(sub, "flash.error", ErrorString(c.error))>>

\* onSubmit from the point where the awaited login promise has settled.
onSubmit(sub, c) ==
  IF c.state = "resolved"
    THEN <<Effect(sub, "refreshAuth", ""), Effect(sub, "navigate", "/")>>
    ELSE IF c.error.name = "ApiClientError" /\ c.error.status = 401
      THEN <<Effect(sub, "flash.error", t("users:errors.invalid_auth"))>>
      ELSE <<Effect(sub, "flash.error", ErrorString(c.error))>>

\* The continuation of the submission that awaits call c, if there is one; it
\* runs as a microtask of the event-loop turn that settled the promise.
Resume(cid, c) ==
  /\ ui' = IF c.sub = 0 THEN ui ELSE ui \o onSubmit(c.sub, c)
  /\ submissions' = IF c.sub = 0 THEN submissions
                    ELSE [submissions EXCEPT ![c.sub].pc = "done"]

(***************************************************************************)
(* Actions of the Auth client and of LoginView.                            *)
(***************************************************************************)
CanCall == Len(calls) < MaxCalls

AuthSession ==
  /\ CanCall
  /\ Invoke("session", NoFields, session, 0)
  /\ UNCHANGED <<submissions, ui, db, lastOp>>

AuthLogin ==
  /\ CanCall
  /\ \E arg \in LoginArgs : Invoke("login", arg, login(arg), 0)
  /\ UNCHANGED <<submissions, ui, db, lastOp>>

AuthLogout ==
  /\ CanCall
  /\ Invoke("logout", NoFields, logout, 0)
  /\ UNCHANGED <<submissions, ui, db, lastOp>>

AuthGetInvite ==
  /\ CanCall
  /\ \E token \in Tokens : Invoke("getInvite", [token |-> token], getInvite(token), 0)
  /\ UNCHANGED <<submissions, ui, db, lastOp>>

AuthAcceptInvite ==
  /\ CanCall
  /\ \E arg \in InviteArgs : Invoke("acceptInvite", arg, acceptInvite(arg), 0)
  /\ UNCHANGED <<submissions, ui, db, lastOp>>

\* The form is submitted: both fields are required, then onSubmit runs up to
\* its await of apiClient.auth.login.
Submit ==
  /\ CanCall
  /\ Len(submissions) < MaxSubmits
  /\ \E email \in FormValues, password \in Passwords :
       /\ email # "" /\ password # ""
       /\ LET arg == [email |-> email, password |-> password]
          IN  /\ Invoke("login", arg, login(arg), Len(submissions) + 1)
              /\ submissions' = Append(submissions,
                   [email |-> email, password |-> password,
                    call |-> Len(calls) + 1, pc |-> "awaiting"])
  /\ UNCHANGED <<ui, db, lastOp>>

Responses == ({200} \X JsonTexts) \cup ({401, 500} \X {"{}"})

\* The server answers request r with resp; the promise settles and an
\* awaiting onSubmit continues.
RespondTo(r, resp) ==
  /\ requests[r].state = "sent"
  /\ requests' = [requests EXCEPT ![r].state = "responded",
                                  ![r].status = resp[1], ![r].text = resp[2]]
  /\ LET cid == requests[r].call
         c == calls[cid]
     IN  IF c.state = "pending"
           THEN /\ calls' = [calls EXCEPT ![cid] = Settled(c, resp[1], resp[2])]
                /\ Resume(cid, Settled(c, resp[1], resp[2]))
           ELSE UNCHANGED <<calls, submissions, ui>>
  /\ UNCHANGED <<db, lastOp>>

\* Some request on the wire is answered with one of the responses rs.
RespondWith(rs) ==
  \E r \in 1..Len(requests), resp \in rs : RespondTo(r, resp)

Respond == RespondWith(Responses)

\* Request r gets no response at all.
FailTo(r) ==
  /\ requests[r].state = "sent"
  /\ requests' = [requests EXCEPT ![r].state = "failed"]
  /\ LET cid == requests[r].call
         c == calls[cid]
     IN  IF c.state = "pending"
           THEN /\ calls' = [calls EXCEPT ![cid] = Failed(c)]
                /\ Resume(cid, Failed(c))
           ELSE UNCHANGED <<calls, submissions, ui>>
  /\ UNCHANGED <<db, lastOp>>

NetworkFail == \E r \in 1..Len(requests) : FailTo(r)

(***************************************************************************)
(* class Languages                                                         *)
(***************************************************************************)
LanguageRoles == {"ADMIN", "TRANSLATOR", "VIEWER"}
PostLanguageBodies == {[code |-> "en", name |-> "English"]}
PatchLanguageBodies == {[name |-> "English"]}
StartImportBodies == {[import |-> "Spanish"]}
PostLanguageMemberFields == {"email", "roles"}
MemberRequests == WithExtra({[email |-> "a@x.org", roles |-> <<"VIEWER">>]})
RoleLists == {<<"ADMIN", "TRANSLATOR">>}

findAll == Returning(<<get([path |-> "/api/languages"])>>)

create(language) ==
  Awaiting(<<post([path |-> "/api/languages", body |-> language])>>)

startImport(code, body) ==
  Awaiting(<<post([path |-> "/api/languages/" \o code \o "/import", body |-> body])>>)

importStatusWithPost(code) ==
  Awaiting(<<post([path |-> "/api/languages/" \o code \o "/import"])>>)

importStatus(code) ==
  Awaiting(<<get([path |-> "/api/languages/" \o code \o "/import"])>>)

findByCode(code) ==
  Returning(<<get([path |-> "/api/languages/" \o code])>>)

update(code, language) ==
  Awaiting(<<patch([path |-> "/api/languages/" \o code, body |-> language])>>)

findMembers(code) ==
  Returning(<<get([path |-> "/api/languages/" \o code \o "/members"])>>)

inviteMember(code, request) ==
  Returning(<<post([path |-> "/api/languages/" \o code \o "/members",
                    body |-> request])>>)

updateMember(code, userId, roles) ==
  Returning(<<patch([path |-> "/api/languages/" \o code \o "/members/" \o userId,
                     body |-> [roles |-> roles]])>>)

removeMember(code, userId) ==
  Returning(<<delete([path |-> "/api/languages/" \o code \o "/members/" \o userId])>>)

(***************************************************************************)
(* Actions of the Languages client.                                        *)
(***************************************************************************)
CanCallLang == Len(calls) < MaxLangCalls

LangFindAll ==
  /\ CanCallLang
  /\ Invoke("findAll", NoFields, findAll, 0)
  /\ UNCHANGED <<submissions, ui, db, lastOp>>

LangCreate ==
  /\ CanCallLang
  /\ \E language \in PostLanguageBodies :
       Invoke("create", [language |-> language], create(language), 0)
  /\ UNCHANGED <<submissions, ui, db, lastOp>>

LangStartImport ==
  /\ CanCallLang
  /\ \E code \in Codes, body \in StartImportBodies :
       Invoke("startImport", [code |-> code, body |-> body], startImport(code, body), 0)
  /\ UNCHANGED <<submissions, ui, db, lastOp>>

LangImportStatus ==
  /\ CanCallLang
  /\ \E code \in Codes : Invoke("importStatus", [code |-> code], importStatus(code), 0)
  /\ UNCHANGED <<submissions, ui, db, lastOp>>

LangFindByCode ==
  /\ CanCallLang
  /\ \E code \in Codes : Invoke("findByCode", [code |-> code], findByCode(code), 0)
  /\ UNCHANGED <<submissions, ui, db, lastOp>>

LangUpdate ==
  /\ CanCallLang
  /\ \E code \in Codes, language \in PatchLanguageBodies :
       Invoke("update", [code |-> code, language |-> language], update(code, language), 0)
  /\ UNCHANGED <<submissions, ui, db, lastOp>>

LangFindMembers ==
  /\ CanCallLang
  /\ \E code \in Codes : Invoke("findMembers", [code |-> code], findMembers(code), 0)
  /\ UNCHANGED <<submissions, ui, db, lastOp>>

LangInviteMember ==
  /\ CanCallLang
  /\ \E code \in Codes, request \in MemberRequests :
       Invoke("inviteMember", [code |-> code, request |-> request],
              inviteMember(code, request), 0)
  /\ UNCHANGED <<submissions, ui, db, lastOp>>

LangUpdateMember ==
  /\ CanCallLang
  /\ \E code \in Codes, userId \in UserIds, roles \in RoleLists :
       Invoke("updateMember", [code |-> code, userId |-> userId, roles |-> roles],
              updateMember(code, userId, roles), 0)
  /\ UNCHANGED <<submissions, ui, db, lastOp>>

LangRemoveMember ==
  /\ CanCallLang
  /\ \E code \in Codes, userId \in UserIds :
       Invoke("removeMember", [code |-> code, userId |-> userId],
              removeMember(code, userId), 0)
  /\ UNCHANGED <<submissions, ui, db, lastOp>>

LangResponses == {<<200, "{}">>, <<500, "{}">>}

LangRespond == RespondWith(LangResponses)

(***************************************************************************)
(* The relational schema: the models with their @id / @@id, their          *)
(* relations and each relation's referential action on delete.  Of every   *)
(* model the key columns, the foreign keys and one more column are kept.   *)
(* Without an onDelete a required relation restricts the delete of the row *)
(* it references and an optional one is set to null.                       *)
(***************************************************************************)
NULL == "NULL"
Users == {"u1", "u2"}
LanguageIds == {"l1", "l2"}
WordIds == {"w1"}
Timestamps == {1, 2}

Tables ==
  {"AuthUser", "AuthSession", "AuthKey", "UserEmailVerification", "UserSystemRole",
   "Word", "Language", "LanguageImportJob", "LanguageMemberRole", "Gloss",
   "GlossHistoryEntry", "MachineGloss", "TranslatorNote", "Footnote"}

AccountTables ==
  {"AuthUser", "AuthSession", "AuthKey", "UserEmailVerification", "UserSystemRole",
   "Language", "LanguageImportJob", "LanguageMemberRole"}

WordTables ==
  {"AuthUser", "Word", "Language", "Gloss", "GlossHistoryEntry", "MachineGloss",
   "TranslatorNote", "Footnote"}

Relation(column, references, onDelete) ==
  [column |-> column, references |-> references, onDelete |-> onDelete]

AuthUserId == {"id"}
AuthSessionId == {"id"}
AuthKeyId == {"id"}
UserEmailVerificationId == {"token"}
UserSystemRoleId == {"userId", "role"}
WordId == {"id"}
LanguageId == {"id"}
\* An import job keyed by the language and the user who started it.
LanguageImportJobIdPerUser == {"languageId", "userId"}
LanguageImportJobId == {"languageId"}
\* One role row per member of a language.
LanguageMemberRoleIdPerMember == {"languageId", "userId"}
LanguageMemberRoleId == {"languageId", "userId", "role"}
\* A gloss row per approval state.
GlossIdPerState == {"wordId", "languageId", "state"}
GlossId == {"wordId", "languageId"}
\* A history keyed like the gloss it follows.
GlossHistoryEntryIdPerGloss == {"wordId", "languageId"}
GlossHistoryEntryId == {"wordId", "languageId", "timestamp"}
MachineGlossId == {"wordId", "languageId"}
TranslatorNoteId == {"wordId", "languageId"}
FootnoteId == {"wordId", "languageId"}

PrimaryKey(table) ==
  CASE table = "AuthUser" -> AuthUserId
    [] table = "AuthSession" -> AuthSessionId
    [] table = "AuthKey" -> AuthKeyId
    [] table = "UserEmailVerification" -> UserEmailVerificationId
    [] table = "UserSystemRole" -> UserSystemRoleId
    [] table = "Word" -> WordId
    [] table = "Language" -> LanguageId
    [] table = "LanguageImportJob" -> LanguageImportJobId
    [] table = "LanguageMemberRole" -> LanguageMemberRoleId
    [] table = "Gloss" -> GlossId
    [] table = "GlossHistoryEntry" -> GlossHistoryEntryId
    [] table = "MachineGloss" -> MachineGlossId
    [] table = "TranslatorNote" -> TranslatorNoteId
    [] table = "Footnote" -> FootnoteId

WordLanguageRelations ==
  {Relation("wordId", "Word", "Restrict"), Relation("languageId", "Language", "Restrict")}

Relations(table) ==
  CASE table = "AuthSession" -> {Relation("user_id", "AuthUser", "Cascade")}
    [] table = "AuthKey" -> {Relation("user_id", "AuthUser", "Cascade")}
    [] table = "UserEmailVerification" -> {Relation("userId", "AuthUser", "Cascade")}
    [] table = "UserSystemRole" -> {Relation("userId", "AuthUser", "Cascade")}
    [] table = "LanguageImportJob" ->
         {Relation("languageId", "Language", "Restrict"),
          Relation("userId", "AuthUser", "SetNull")}
    [] table = "LanguageMemberRole" ->
         {Relation("userId", "AuthUser", "Restrict"),
          Relation("languageId", "Language", "Restrict")}
    [] table = "Gloss" -> WordLanguageRelations
    [] table = "GlossHistoryEntry" ->
         WordLanguageRelations \cup {Relation("userId", "AuthUser", "SetNull")}
    [] table = "MachineGloss" -> WordLanguageRelations
    [] table = "TranslatorNote" ->
         WordLanguageRelations \cup {Relation("authorId", "AuthUser", "Restrict")}
    [] table = "Footnote" ->
         WordLanguageRelations \cup {Relation("authorId", "AuthUser", "Restrict")}
    [] OTHER -> {}

\* The rows a statement may name.
RowUniverse(table) ==
  CASE table = "AuthUser" -> {[id |-> u] : u \in Users}
    [] table = "AuthSession" -> {[id |-> "s1", user_id |-> u] : u \in Users}
    [] table = "AuthKey" -> {[id |-> "k1", user_id |-> u] : u \in Users}
    [] table = "UserEmailVerification" -> {[token |-> "t1", userId |-> u] : u \in Users}
    [] table = "UserSystemRole" -> {[userId |-> u, role |-> "ADMIN"] : u \in Users}
    [] table = "Word" -> {[id |-> w] : w \in WordIds}
    [] table = "Language" -> {[id |-> l] : l \in LanguageIds}
    [] table = "LanguageImportJob" ->
         {[languageId |-> l, userId |-> u, succeeded |-> b] :
            l \in LanguageIds, u \in Users \cup {NULL}, b \in {NULL, "true"}}
    [] table = "LanguageMemberRole" ->
         {[languageId |-> l, userId |-> u, role |-> r] :
            l \in LanguageIds, u \in Users, r \in LanguageRoles}
    [] table = "Gloss" ->
         {[wordId |-> w, languageId |-> l, state |-> st] :
            w \in WordIds, l \in LanguageIds, st \in {"UNAPPROVED", "APPROVED"}}
    [] table = "GlossHistoryEntry" ->
         {[wordId |-> w, languageId |-> l, timestamp |-> ts, userId |-> u, source |-> src] :
            w \in WordIds, l \in LanguageIds, ts \in Timestamps,
            u \in {"u1", NULL}, src \in {"USER", "IMPORT"}}
    [] table = "MachineGloss" ->
         {[wordId |-> w, languageId |-> l, gloss |-> g] :
            w \in WordIds, l \in LanguageIds, g \in {"a", "b"}}
    [] table = "TranslatorNote" ->
         {[wordId |-> w, languageId |-> l, authorId |-> u] :
            w \in WordIds, l \in LanguageIds, u \in Users}
    [] table = "Footnote" ->
         {[wordId |-> w, languageId |-> l, authorId |-> u] :
            w \in WordIds, l \in LanguageIds, u \in Users}

(***************************************************************************)
(* The database under that schema.                                         *)
(***************************************************************************)
Rows(table) == BagToSet(db[table])

RECURSIVE SumOver(_, _)
SumOver(f, S) ==
  IF S = {} THEN 0
  ELSE LET x == CHOOSE y \in S : TRUE IN f[x] + SumOver(f, S \ {x})

TotalRows == SumOver([tb \in Tables |-> BagCardinality(db[tb])], Tables)

SameKey(table, r1, r2) == \A c \in PrimaryKey(table) : r1[c] = r2[c]

\* The unique index of the primary key.
KeyTaken(table, row) == \E r \in Rows(table) : SameKey(table, r, row)

\* The rows that some relation of `table` makes `row` reference exist.
ForeignKeysHold(table, row) ==
  \A rel \in Relations(table) :
    \/ row[rel.column] = NULL
    \/ \E parent \in Rows(rel.references) : parent.id = row[rel.column]

Outcome(op, table, row, result) ==
  [op |-> op, table |-> table, row |-> row, result |-> result]

InsertResult(table, row) ==
  IF KeyTaken(table, row) THEN "unique_violation"
  ELSE IF ~ForeignKeysHold(table, row) THEN "foreign_key_violation"
  ELSE "ok"

\* INSERT INTO table VALUES (row)
InsertInto(tables) ==
  \E table \in tables : \E row \in RowUniverse(table) :
    LET result == InsertResult(table, row)
    IN  /\ result = "ok" => TotalRows < MaxRows
        /\ db' = IF result = "ok"
                   THEN [db EXCEPT ![table] = @ (+) SetToBag({row})]
                   ELSE db
        /\ lastOp' = Outcome("insert", table, row, result)
        /\ UNCHANGED clientVars

\* UPDATE table SET the columns outside the key WHERE the key is that of old
UpdateIn(tables) ==
  \E table \in tables : \E old \in Rows(table) : \E new \in RowUniverse(table) :
    /\ new # old
    /\ SameKey(table, old, new)
    /\ LET result == IF ForeignKeysHold(table, new) THEN "ok" ELSE "foreign_key_violation"
       IN  /\ db' = IF result = "ok"
                      THEN [db EXCEPT ![table] =
                              (@ (-) [r \in {old} |-> CopiesIn(old, db[table])])
                                (+) SetToBag({new})]
                      ELSE db
           /\ lastOp' = Outcome("update", table, new, result)
    /\ UNCHANGED clientVars

\* The rows of table `child` that reference `row` of `table` through a
\* relation whose action on delete is `onDelete`.
Referencing(child, table, row, onDelete) ==
  {r \in Rows(child) :
     \E rel \in Relations(child) :
       /\ rel.references = table
       /\ rel.onDelete = onDelete
       /\ r[rel.column] = row.id}

DeleteBlocked(table, row) ==
  /\ "id" \in DOMAIN row
  /\ \E child \in Tables : Referencing(child, table, row, "Restrict") # {}

\* A referencing row after the delete of `row`: its SetNull columns are null.
Nulled(child, r, table, row) ==
  [c \in DOMAIN r |->
     IF \E rel \in Relations(child) :
          /\ rel.column = c /\ rel.references = table
          /\ rel.onDelete = "SetNull" /\ r[c] = row.id
       THEN NULL ELSE r[c]]

\* Table `child` after the delete of `row` from `table`.
AfterDelete(child, table, row) ==
  LET gone == (IF child = table THEN {row} ELSE {})
                \cup (IF "id" \in DOMAIN row
                        THEN Referencing(child, table, row, "Cascade") ELSE {})
      kept == Rows(child) \ gone
      new(r) == IF "id" \in DOMAIN row THEN Nulled(child, r, table, row) ELSE r
      image == {new(r) : r \in kept}
  IN  [x \in image |->
         SumOver([r \in kept |-> CopiesIn(r, db[child])], {r \in kept : new(r) = x})]

\* DELETE FROM table WHERE the key is that of row
DeleteFrom(tables) ==
  \E table \in tables : \E row \in Rows(table) :
    LET result == IF DeleteBlocked(table, row) THEN "restricted" ELSE "ok"
    IN  /\ db' = IF result = "ok"
                   THEN [child \in Tables |-> AfterDelete(child, table, row)]
                   ELSE db
        /\ lastOp' = Outcome("delete", table, row, result)
        /\ UNCHANGED clientVars

InitClient ==
  /\ calls = <<>>
  /\ requests = <<>>
  /\ submissions = <<>>
  /\ ui = <<>>

InitDb ==
  /\ db = [table \in Tables |-> EmptyBag]
  /\ lastOp = Outcome("none", "", NoFields, "")

Init == InitClient /\ InitDb

Next ==
  \/ AuthSession
  \/ AuthLogin
  \/ AuthLogout
  \/ AuthGetInvite
  \/ AuthAcceptInvite
  \/ Submit
  \/ Respond
  \/ NetworkFail

Spec == Init /\ [][Next]_vars

NextLang ==
  \/ LangFindAll
  \/ LangCreate
  \/ LangStartImport
  \/ LangImportStatus
  \/ LangFindByCode
  \/ LangUpdate
  \/ LangFindMembers
  \/ LangInviteMember
  \/ LangUpdateMember
  \/ LangRemoveMember
  \/ LangRespond

SpecLang == Init /\ [][NextLang]_vars

\* The statements on the tables of users, languages, roles and import jobs.
NextDb ==
  \/ InsertInto(AccountTables)
  \/ UpdateIn(AccountTables)
  \/ DeleteFrom(AccountTables)

SpecDb == Init /\ [][NextDb]_vars

\* The statements on the tables of words and their per-language content.
NextWords ==
  \/ InsertInto(WordTables)
  \/ UpdateIn(WordTables)
  \/ DeleteFrom(WordTables)

SpecWords == Init /\ [][NextWords]_vars

\* The rows a gloss history entry references.
HistoryParentTables == {"AuthUser", "Word", "Language"}

\* A gloss change, by a user or by an import, is recorded: the log is only
\* ever written by adding an entry.
RecordGlossChange == InsertInto({"GlossHistoryEntry"})

\* The gloss history: its entries are added, and the users, words and
\* languages they reference are added and deleted.
NextHistory ==
  \/ InsertInto(HistoryParentTables)
  \/ RecordGlossChange
  \/ DeleteFrom(HistoryParentTables)

SpecHistory == Init /\ [][NextHistory]_vars

(***************************************************************************)
(* Properties of the clients and of LoginView.                             *)
(***************************************************************************)
RequestsOf(i) == {r \in 1..Len(requests) : requests[r].call = i}

CallsOf(methods) == {i \in 1..Len(calls) : calls[i].method \in methods}

EffectsOf(sub) == SelectSeq(ui, LAMBDA e : e.sub = sub)

FlashesOf(sub) == SelectSeq(ui, LAMBDA e : e.sub = sub /\ e.effect = "flash.error")

\* C1: one invocation of Auth.login issues exactly one HTTP request, a POST to
\* /api/auth/login whose body is exactly {email, password} with the values
\* passed in, and no other request.
C1_LoginIssuesOnePost ==
  \A i \in CallsOf({"login"}) :
    /\ Cardinality(RequestsOf(i)) = 1
    /\ \A r \in RequestsOf(i) :
         /\ requests[r].req.verb = "POST"
         /\ requests[r].req.path = "/api/auth/login"
         /\ ~requests[r].req.hasQuery
         /\ requests[r].req.hasBody
         /\ requests[r].req.body =
              [email |-> calls[i].args.email, password |-> calls[i].args.password]

\* Two logins with different emails were invoked, one of them with an argument
\* object that carries a further field, and both requests are on the wire.
C1_Witness ==
  /\ Len(requests) = 2
  /\ \E i, j \in CallsOf({"login"}) :
       /\ calls[i].args.email # calls[j].args.email
       /\ ExtraField \in DOMAIN calls[i].args

\* C2: when the login call of a submission fails with an ApiClientError of
\* status 401, exactly one flash error is shown, the localized
\* users:errors.invalid_auth message; when it fails with any other error,
\* exactly one flash error is shown, the string form of that error.
C2_FlashOnFailure ==
  \A s \in 1..Len(submissions) :
    LET c == calls[submissions[s].call]
    IN  c.state = "rejected" =>
          /\ Len(FlashesOf(s)) = 1
          /\ FlashesOf(s)[1].arg =
               IF c.error.name = "ApiClientError" /\ c.error.status = 401
                 THEN "[users:errors.invalid_auth]"
                 ELSE c.error.name \o ": " \o c.error.message

\* One submission failed with a 401 and another with a status that is not 401.
C2_Witness ==
  \E s1, s2 \in 1..Len(submissions) :
    /\ calls[submissions[s1].call].state = "rejected"
    /\ calls[submissions[s1].call].error.status = 401
    /\ calls[submissions[s2].call].state = "rejected"
    /\ calls[submissions[s2].call].error.status = 500

\* A submission failed with an error that is not an ApiClientError.
C2_WitnessNetwork ==
  \E s \in 1..Len(submissions) :
    /\ calls[submissions[s].call].state = "rejected"
    /\ calls[submissions[s].call].error.name = "TypeError"

AuthMethods == {"session", "login", "logout", "getInvite", "acceptInvite"}

\* C5: every Auth method performs exactly one HTTP call per invocation whatever
\* the outcome: a success response makes it return the parsed body, an error
\* response makes it fail with a client error carrying that status, and it
\* neither repeats the request nor answers from an earlier response.
C5_AuthOneCallEach ==
  \A i \in CallsOf(AuthMethods) :
    /\ Cardinality(RequestsOf(i)) = 1
    /\ \A r \in RequestsOf(i) :
         /\ requests[r].state = "sent" => calls[i].state = "pending"
         /\ (requests[r].state = "responded" /\ IsOk(requests[r].status)) =>
              /\ calls[i].state = "resolved"
              /\ calls[i].value = ParseJson(requests[r].text)
         /\ (requests[r].state = "responded" /\ ~IsOk(requests[r].status)) =>
              /\ calls[i].state = "rejected"
              /\ calls[i].error.name = "ApiClientError"
              /\ calls[i].error.status = requests[r].status

\* session() was invoked twice: the first got a success response with one
\* body, the second an error response.
C5_Witness ==
  /\ Len(calls) = 2
  /\ calls[1].method = "session" /\ calls[1].state = "resolved"
  /\ calls[1].value = [user |-> "u1"]
  /\ calls[2].method = "session" /\ calls[2].state = "rejected"
  /\ calls[2].error.status = 500

\* The verb and path of each Languages endpoint.
Endpoint(method, args) ==
  CASE method = "findAll" -> <<"GET", "/api/languages">>
    [] method = "create" -> <<"POST", "/api/languages">>
    [] method = "findByCode" -> <<"GET", "/api/languages/" \o args.code>>
    [] method = "update" -> <<"PATCH", "/api/languages/" \o args.code>>
    [] method = "startImport" -> <<"POST", "/api/languages/" \o args.code \o "/import">>
    [] method = "importStatus" -> <<"GET", "/api/languages/" \o args.code \o "/import">>
    [] method = "findMembers" -> <<"GET", "/api/languages/" \o args.code \o "/members">>
    [] method = "inviteMember" -> <<"POST", "/api/languages/" \o args.code \o "/members">>
    [] method = "updateMember" ->
         <<"PATCH", "/api/languages/" \o args.code \o "/members/" \o args.userId>>
    [] method = "removeMember" ->
         <<"DELETE", "/api/languages/" \o args.code \o "/members/" \o args.userId>>

LanguagesMethods ==
  {"findAll", "create", "findByCode", "update", "startImport", "importStatus",
   "findMembers", "inviteMember", "updateMember", "removeMember"}

\* C4: the body sent by Auth.acceptInvite holds exactly the fields token, name
\* and password, and the body sent by Languages.inviteMember holds exactly the
\* fields of its request-body type, whatever further field the caller's
\* argument object carries.
C4_ExactBodies ==
  /\ \A i \in CallsOf({"acceptInvite"}) : \A r \in RequestsOf(i) :
       /\ requests[r].req.hasBody
       /\ DOMAIN requests[r].req.body = {"token", "name", "password"}
  /\ \A i \in CallsOf({"inviteMember"}) : \A r \in RequestsOf(i) :
       /\ requests[r].req.hasBody
       /\ DOMAIN requests[r].req.body = PostLanguageMemberFields

\* The half of C4 about Auth.acceptInvite, with the values passed in.
C4_AcceptInviteExact ==
  \A i \in CallsOf({"acceptInvite"}) : \A r \in RequestsOf(i) :
    /\ requests[r].req.hasBody
    /\ requests[r].req.body = [token |-> calls[i].args.token, name |-> calls[i].args.name,
                               password |-> calls[i].args.password]

\* C6: each Languages method issues exactly one request, with the verb and
\* path of its endpoint and the arguments passed in place of :code and
\* :userId, whatever was called before it.
C6_LanguagesEndpoints ==
  \A i \in CallsOf(LanguagesMethods) :
    /\ Cardinality(RequestsOf(i)) = 1
    /\ \A r \in RequestsOf(i) :
         <<requests[r].req.verb, requests[r].req.path>> =
           Endpoint(calls[i].method, calls[i].args)

\* updateMember of one language and user was answered, then removeMember of
\* another language and user was invoked.
C6_Witness ==
  /\ Len(calls) = 2
  /\ calls[1].method = "updateMember" /\ calls[1].state = "resolved"
  /\ calls[2].method = "removeMember"
  /\ calls[1].args.code # calls[2].args.code
  /\ calls[1].args.userId # calls[2].args.userId

(***************************************************************************)
(* Properties of the database.                                             *)
(***************************************************************************)
RowsNow(table) == BagToSet(db[table])'

\* The number of rows of `table` that satisfy Test.
Count(table, Test(_)) ==
  SumOver([r \in Rows(table) |-> CopiesIn(r, db[table])], {r \in Rows(table) : Test(r)})

InsertStep(table) == lastOp'.op = "insert" /\ lastOp'.table = table

WordLanguageTables == {"Gloss", "MachineGloss", "TranslatorNote", "Footnote"}

OnePerWordLanguage ==
  \A table \in WordLanguageTables : \A w \in WordIds, l \in LanguageIds :
    Count(table, LAMBDA r : r.wordId = w /\ r.languageId = l) <= 1

SecondRowRejected ==
  \A table \in WordLanguageTables :
    (/\ InsertStep(table)
     /\ \E r \in Rows(table) :
          r.wordId = lastOp'.row.wordId /\ r.languageId = lastOp'.row.languageId)
    => (lastOp'.result = "unique_violation" /\ db'[table] = db[table])

\* C7: the Gloss, MachineGloss, TranslatorNote and Footnote tables each hold at
\* most one row per (wordId, languageId); an insert of a second row with an
\* existing (wordId, languageId) is rejected and leaves the table unchanged.
C7_OneRowPerWordLanguage == []OnePerWordLanguage /\ [][SecondRowRejected]_vars

\* A footnote by another author was just refused for a word and language
\* that already have a footnote.
C7_Witness ==
  /\ lastOp.op = "insert" /\ lastOp.table = "Footnote"
  /\ lastOp.result = "unique_violation"
  /\ lastOp.row \notin Rows("Footnote")
  /\ \E r \in Rows("Footnote") :
       r.wordId = lastOp.row.wordId /\ r.languageId = lastOp.row.languageId

\* C8: each Language has at most one LanguageImportJob row, finished or not.
C8_OneImportJobPerLanguage ==
  \A l \in LanguageIds :
    Count("LanguageImportJob", LAMBDA r : r.languageId = l) <= 1

\* An import was just started, and refused, for a language whose job row is
\* finished, while another language has an unfinished job.
C8_Witness ==
  /\ lastOp.op = "insert" /\ lastOp.table = "LanguageImportJob"
  /\ lastOp.result = "unique_violation"
  /\ \E r \in Rows("LanguageImportJob") :
       r.languageId = lastOp.row.languageId /\ r.succeeded = "true"
  /\ \E r \in Rows("LanguageImportJob") :
       r.languageId # lastOp.row.languageId /\ r.succeeded = NULL

\* The relations to AuthUser, as (table, column).
UserColumns ==
  {<<"AuthSession", "user_id">>, <<"AuthKey", "user_id">>,
   <<"UserEmailVerification", "userId">>, <<"UserSystemRole", "userId">>,
   <<"LanguageMemberRole", "userId">>, <<"LanguageImportJob", "userId">>,
   <<"GlossHistoryEntry", "userId">>, <<"TranslatorNote", "authorId">>,
   <<"Footnote", "authorId">>}

CascadingUserColumns ==
  {<<"AuthSession", "user_id">>, <<"AuthKey", "user_id">>,
   <<"UserEmailVerification", "userId">>, <<"UserSystemRole", "userId">>}

\* A delete of a user succeeds and leaves none of the rows that referenced the
\* user through one of `columns`.
DeleteUserStep ==
  lastOp'.op = "delete" /\ lastOp'.table = "AuthUser" /\ lastOp'.row \in Rows("AuthUser")

DeleteCascades(columns) ==
  DeleteUserStep
  => /\ lastOp'.result = "ok"
     /\ lastOp'.row \notin RowsNow("AuthUser")
     /\ \A tc \in columns : \A r \in Rows(tc[1]) :
          r[tc[2]] = lastOp'.row.id =>
            ~\E r2 \in RowsNow(tc[1]) : SameKey(tc[1], r, r2)

\* C9: deleting an AuthUser cascades to its dependent rows: no session, key,
\* email verification, system role, language role grant, import job, gloss
\* history entry, translator note or footnote row that referenced the user
\* remains, and such rows do not block the deletion.
C9_UserDeleteCascades == [][DeleteCascades(UserColumns)]_vars

\* The part of C9 that the schema declares with onDelete: Cascade.
C9_DeclaredCascades ==
  [][(/\ DeleteUserStep
      /\ \A tc \in UserColumns \ CascadingUserColumns : \A r \in Rows(tc[1]) :
           r[tc[2]] # lastOp'.row.id)
     => DeleteCascades(CascadingUserColumns)]_vars

NoRoleTwice ==
  \A r \in Rows("LanguageMemberRole") : CopiesIn(r, db["LanguageMemberRole"]) = 1

GrantAdds ==
  (/\ InsertStep("LanguageMemberRole")
   /\ lastOp'.row \notin Rows("LanguageMemberRole")
   /\ ForeignKeysHold("LanguageMemberRole", lastOp'.row))
  => /\ lastOp'.result = "ok"
     /\ db'["LanguageMemberRole"] =
          db["LanguageMemberRole"] (+) SetToBag({lastOp'.row})

\* C10: granting a (language, user) pair a role it does not yet hold adds a row
\* and leaves the pair's other role rows unchanged, so that several roles may
\* be held at once; the same (language, user, role) is never stored twice.
C10_RoleGrantsAdditive == []NoRoleTwice /\ [][GrantAdds]_vars

\* A user who held one role for a language was just granted another and
\* holds both.
C10_Witness ==
  /\ lastOp.op = "insert" /\ lastOp.table = "LanguageMemberRole"
  /\ lastOp.result = "ok"
  /\ \E r \in Rows("LanguageMemberRole") :
       /\ r.languageId = lastOp.row.languageId
       /\ r.userId = lastOp.row.userId
       /\ r.role # lastOp.row.role
  /\ lastOp.row \in Rows("LanguageMemberRole")

(***************************************************************************)
(* Properties of the gloss history.                                        *)
(***************************************************************************)
History == "GlossHistoryEntry"

SameChange(r1, r2) ==
  /\ r1.wordId = r2.wordId
  /\ r1.languageId = r2.languageId
  /\ r1.timestamp = r2.timestamp

HistoryKeysDistinct ==
  \A r \in Rows(History) : Count(History, LAMBDA r2 : SameChange(r, r2)) = 1

\* Every entry is still there, the same in every column.
EntriesUntouched == \A r \in Rows(History) : r \in RowsNow(History)

\* A recorded change has added its entry.
RecordedIsNew ==
  (InsertStep(History) /\ lastOp'.result = "ok")
  => /\ ~\E r \in Rows(History) : SameChange(r, lastOp'.row)
     /\ db'[History] = db[History] (+) SetToBag({lastOp'.row})

EntriesKept ==
  \A r \in Rows(History) :
    \/ r \in RowsNow(History)
    \/ /\ DeleteUserStep
       /\ lastOp'.result = "ok"
       /\ r.userId = lastOp'.row.id
       /\ [r EXCEPT !.userId = NULL] \in RowsNow(History)

\* A change under a key no entry has, naming an existing word, language and
\* user, is recorded: exactly its entry is added.
FreeKeyRecorded ==
  (/\ InsertStep(History)
   /\ ~\E r \in Rows(History) : SameChange(r, lastOp'.row)
   /\ ForeignKeysHold(History, lastOp'.row))
  => /\ lastOp'.result = "ok"
     /\ db'[History] = db[History] (+) SetToBag({lastOp'.row})

C11_WitnessAuthorGone ==
  /\ lastOp.op = "delete" /\ lastOp.table = "AuthUser" /\ lastOp.result = "ok"
  /\ Rows("AuthUser") = {}
  /\ \E r \in Rows(History) : r.source = "USER" /\ r.userId = NULL

(***************************************************************************)
(* Overlapping submissions of LoginView.                                   *)
(***************************************************************************)
\* Submission s has its own call of login, and that call its own POST.
OwnPost(s) ==
  LET cid == submissions[s].call
  IN  /\ calls[cid].method = "login" /\ calls[cid].sub = s
      /\ \A s2 \in 1..Len(submissions) : submissions[s2].call = cid => s2 = s
      /\ Cardinality(RequestsOf(cid)) = 1
      /\ \A r \in RequestsOf(cid) :
           /\ requests[r].req.verb = "POST"
           /\ requests[r].req.path = "/api/auth/login"
           /\ requests[r].req.body =
                [email |-> submissions[s].email, password |-> submissions[s].password]

\* While submission s waits, its request stays on the wire and may complete
\* next, with any response or with none, whatever the other submissions did.
NotSuppressed(s) ==
  LET cid == submissions[s].call
  IN  calls[cid].state = "pending" =>
        /\ submissions[s].pc = "awaiting"
        /\ EffectsOf(s) = <<>>
        /\ \A r \in RequestsOf(cid) :
             /\ requests[r].state = "sent"
             /\ \A resp \in Responses : ENABLED RespondTo(r, resp)
             /\ ENABLED FailTo(r)

\* Once the request of submission s has completed, its own outcome handling
\* has run: refreshAuth and navigate, or one flash error.
OwnHandling(s) ==
  LET cid == submissions[s].call
  IN  calls[cid].state # "pending" =>
        /\ submissions[s].pc = "done"
        /\ calls[cid].state = "resolved" =>
             /\ Len(EffectsOf(s)) = 2
             /\ EffectsOf(s)[2] = Effect(s, "navigate", "/")
        /\ calls[cid].state = "rejected" =>
             /\ Len(EffectsOf(s)) = 1
             /\ EffectsOf(s)[1].effect = "flash.error"

\* C12: overlapping submissions are not coordinated: each issues its own POST
\* to /api/auth/login, neither is cancelled or suppressed by the other, their
\* responses may complete in either order, and each completion runs its own
\* outcome handling.
C12_SubmissionsUncoordinated ==
  \A s \in 1..Len(submissions) : OwnPost(s) /\ NotSuppressed(s) /\ OwnHandling(s)

\* Two submissions overlapped; the later one completed first and navigated
\* to '/', and afterwards the earlier one showed a flash error.
C12_Witness ==
  /\ Len(submissions) = 2
  /\ submissions[1].call < submissions[2].call
  /\ Len(ui) = 3
  /\ ui[1] = Effect(2, "refreshAuth", "")
  /\ ui[2] = Effect(2, "navigate", "/")
  /\ ui[3].sub = 1 /\ ui[3].effect = "flash.error"

\* The same with the completions in the order of the submissions.
C12_WitnessInOrder ==
  /\ Len(submissions) = 2
  /\ Len(ui) = 3
  /\ ui[1] = Effect(1, "refreshAuth", "")
  /\ ui[2] = Effect(1, "navigate", "/")
  /\ ui[3].sub = 2 /\ ui[3].effect = "flash.error"

====
